---- MODULE Spec2Model ----
(***************************************************************************)
(* A model of the FieldSelector class of api-field-selector                *)
(* (src/src/FieldSelector.ts): construction-time validation, selection of  *)
(* fields from a request, object filtering and the two accessors, together *)
(* with a caller that keeps and mutates the values the methods return.     *)
(*                                                                         *)
(* Representation.                                                         *)
(*  - A JavaScript string is a sequence of lexemes.  A lexeme is a single  *)
(*    character ("a", "@", ",", " ", "|") or an indivisible word that      *)
(*    holds no separator, blank or "@" ("constructor"); split, trim,       *)
(*    startsWith and slice(1) never cut inside such a word, so distinct    *)
(*    sequences stand for distinct strings.                                *)
(*  - A JavaScript Set is a duplicate-free sequence in insertion order     *)
(*    (the order Array.from and forEach observe).                          *)
(*  - A value that may be undefined is a record tagged by t.               *)
(*  - An object is the sequence of its own enumerable entries in the       *)
(*    order Object.entries yields them.                                    *)
(***************************************************************************)
EXTENDS Naturals, Sequences, FiniteSets, TLC

VARIABLES phase, options, config, error, availableFields, defaultFields,
          fieldGroups, last, held

vars == <<phase, options, config, error, availableFields, defaultFields,
          fieldGroups, last, held>>

(***************************************************************************)
(* Bounds of the model.                                                    *)
(***************************************************************************)
\* longest availableFields / defaultFields / group field list among the
\* enumerated construction inputs
MaxList == 2
\* most groups in an enumerated fieldGroups mapping
MaxGroups == 2
\* most tokens in a raw selection string
MaxTokens == 2
\* longest multi-valued (array) query or header value
MaxArrayLen == 2
\* most own keys of an object handed to filterObject
MaxObjKeys == 2

(***************************************************************************)
(* JavaScript values and primitives.                                       *)
(***************************************************************************)
Undefined == [t |-> "undefined"]
Str(s) == [t |-> "str", v |-> s]
Arr(a) == [t |-> "arr", v |-> a]
Obj(entries) == [t |-> "obj", v |-> entries]

Range(s) == {s[i] : i \in 1..Len(s)}

\* Array.prototype.includes
Includes(list, x) == \E i \in 1..Len(list) : list[i] = x

\* Array.prototype.join
RECURSIVE JoinStr(_, _)
JoinStr(list, sep) ==
  IF Len(list) = 0 THEN <<>>
  ELSE IF Len(list) = 1 THEN list[1]
  ELSE list[1] \o sep \o JoinStr(Tail(list), sep)

\* Set.prototype.add on an insertion-ordered set
SetAdd(S, e) == IF Includes(S, e) THEN S ELSE Append(S, e)

\* new Set(iterable)
RECURSIVE SetAddAll(_, _)
SetAddAll(S, list) ==
  IF Len(list) = 0 THEN S ELSE SetAddAll(SetAdd(S, Head(list)), Tail(list))

\* a variant that stores the supplied array as it is (no deduplication)
NewSetKeepAll(list) == list

NewSet(list) == SetAddAll(<<>>, list)

\* Set.prototype.delete
SetDelete(S, e) == SelectSeq(S, LAMBDA x : x # e)

\* x || dflt for a string option: undefined and the empty string are falsy
OrDefault(x, dflt) ==
  IF x.t = "undefined" THEN dflt
  ELSE IF x.v = <<>> THEN dflt
  ELSE x.v

(***************************************************************************)
(* The constructor.                                                        *)
(***************************************************************************)
MsgAvailable == <<"availableFields must be provided and non-empty">>
MsgDefault == <<"defaultFields must be provided and non-empty">>
MsgNotSubset == <<"Default fields has values not present in available fields">>

\* `Group ${groupName} contains invalid fields: ${fields.join(', ')}`
GroupMsg(groupName, fields) ==
  <<"Group ">> \o groupName \o <<" contains invalid fields: ">>
    \o JoinStr(fields, <<", ">>)

\* !list?.length
MissingOrEmpty(list) == list.t = "undefined" \/ Len(list.v) = 0

\* fields.every((field) => availableFields.includes(field))
EveryAvailable(fields, available) ==
  \A i \in 1..Len(fields) : Includes(available, fields[i])

\* a variant that validates every group and reports the last invalid one
RECURSIVE InitGroupsKeepGoing(_, _, _)
InitGroupsKeepGoing(entries, available, acc) ==
  IF Len(entries) = 0 THEN [thrown |-> FALSE, error |-> <<>>, groups |-> acc]
  ELSE LET e == Head(entries)
           rest == InitGroupsKeepGoing(Tail(entries), available,
                                       (e.k :> SetAddAll(<<>>, e.v)) @@ acc)
       IN IF rest.thrown \/ EveryAvailable(e.v, available) THEN rest
          ELSE [thrown |-> TRUE, error |-> GroupMsg(e.k, e.v), groups |-> acc]

\* The forEach over Object.entries(fieldGroups): the first entry with a field
\* outside availableFields throws; each entry before it is stored.
RECURSIVE InitGroups(_, _, _)
InitGroups(entries, available, acc) ==
  IF Len(entries) = 0 THEN [thrown |-> FALSE, error |-> <<>>, groups |-> acc]
  ELSE LET e == Head(entries) IN
    IF ~EveryAvailable(e.v, available)
    THEN [thrown |-> TRUE, error |-> GroupMsg(e.k, e.v), groups |-> acc]
    ELSE InitGroups(Tail(entries), available,
                    (e.k :> NewSet(e.v)) @@ acc)

NoGroups == [thrown |-> FALSE, error |-> <<>>, groups |-> <<>>]

\* The whole constructor: what it throws, or the fields of the new instance.
Constructed(opts, cfg) ==
  IF MissingOrEmpty(opts.availableFields)
  THEN [thrown |-> TRUE, error |-> MsgAvailable]
  ELSE IF MissingOrEmpty(opts.defaultFields)
  THEN [thrown |-> TRUE, error |-> MsgDefault]
  ELSE IF ~EveryAvailable(opts.defaultFields.v, opts.availableFields.v)
  THEN [thrown |-> TRUE, error |-> MsgNotSubset]
  ELSE LET g == IF opts.fieldGroups.t = "undefined" THEN NoGroups
                ELSE InitGroups(opts.fieldGroups.v, opts.availableFields.v, <<>>)
       IN IF g.thrown
          THEN [thrown |-> TRUE, error |-> g.error]
          ELSE [thrown |-> FALSE, error |-> <<>>,
                availableFields |-> NewSet(opts.availableFields.v),
                defaultFields |-> NewSet(opts.defaultFields.v),
                fieldGroups |-> g.groups,
                config |-> [queryParam |-> OrDefault(cfg.queryParam, <<"fields">>),
                            headerName |-> OrDefault(cfg.headerName, <<"x-fields">>),
                            separator |-> OrDefault(cfg.separator, <<",">>)]]

NoCall == [op |-> "none"]
NoValue == [kind |-> "none"]
NoConfig == [queryParam |-> <<>>, headerName |-> <<>>, separator |-> <<>>]

Construct(opts, cfg) ==
  /\ phase = "new"
  /\ LET c == Constructed(opts, cfg) IN
       /\ options' = opts
       /\ IF c.thrown
          THEN /\ phase' = "failed"
               /\ error' = c.error
               /\ UNCHANGED <<availableFields, defaultFields, fieldGroups, config>>
          ELSE /\ phase' = "ready"
               /\ error' = <<>>
               /\ availableFields' = c.availableFields
               /\ defaultFields' = c.defaultFields
               /\ fieldGroups' = c.fieldGroups
               /\ config' = c.config
  /\ UNCHANGED <<last, held>>

(***************************************************************************)
(* The accessors.  Each returns a fresh array.                             *)
(***************************************************************************)
ArrayFrom(S) == S

GetAvailableFields ==
  /\ phase = "ready"
  /\ held = NoValue
  /\ last' = [op |-> "getAvailableFields", outcome |-> "returned",
              result |-> ArrayFrom(availableFields)]
  /\ held' = [kind |-> "array", alias |-> FALSE, val |-> ArrayFrom(availableFields)]
  /\ UNCHANGED <<phase, options, config, error, availableFields, defaultFields,
                 fieldGroups>>

GetDefaultFields ==
  /\ phase = "ready"
  /\ held = NoValue
  /\ last' = [op |-> "getDefaultFields", outcome |-> "returned",
              result |-> ArrayFrom(defaultFields)]
  /\ held' = [kind |-> "array", alias |-> FALSE, val |-> ArrayFrom(defaultFields)]
  /\ UNCHANGED <<phase, options, config, error, availableFields, defaultFields,
                 fieldGroups>>

\* The caller lets go of the value it holds before its next call.
Release ==
  /\ held # NoValue
  /\ held' = NoValue
  /\ last' = NoCall
  /\ UNCHANGED <<phase, options, config, error, availableFields, defaultFields,
                 fieldGroups>>

Init ==
  /\ phase = "new"
  /\ options = Undefined
  /\ config = NoConfig
  /\ error = <<>>
  /\ availableFields = <<>>
  /\ defaultFields = <<>>
  /\ fieldGroups = <<>>
  /\ last = NoCall
  /\ held = NoValue

(***************************************************************************)
(* Selection: extractFieldsFromRequest, parseFieldsInput,                  *)
(* getSelectedFields.                                                      *)
(***************************************************************************)
Null == [t |-> "null"]

\* JavaScript truthiness of a query/header value or of the extracted input:
\* undefined, null and the empty string are falsy, every array is truthy
Truthy(x) == x.t = "arr" \/ (x.t = "str" /\ x.v # <<>>)

\* mapping?.[key] on an optional request mapping
Prop(mapping, key) ==
  IF mapping.t = "undefined" THEN Undefined
  ELSE IF key \in DOMAIN mapping.v THEN mapping.v[key]
  ELSE Undefined

\* Array.isArray(x) ? x[0] : x
FirstIfArray(x) ==
  IF x.t = "arr" THEN (IF Len(x.v) = 0 THEN Undefined ELSE Str(x.v[1])) ELSE x

ExtractFieldsFromRequest(request, cfg) ==
  LET queryFields == Prop(request.query, cfg.queryParam)
      headerFields == Prop(request.headers, cfg.headerName)
  IN IF Truthy(queryFields) THEN FirstIfArray(queryFields)
     ELSE IF Truthy(headerFields) THEN FirstIfArray(headerFields)
     ELSE Null

\* String.prototype.split with a non-empty separator
RECURSIVE Split(_, _)
Split(s, sep) ==
  LET n == Len(sep)
      hits == IF Len(s) < n THEN {}
              ELSE {i \in 1..(Len(s) + 1 - n) : SubSeq(s, i, i + n - 1) = sep}
  IN IF hits = {} THEN <<s>>
     ELSE LET i == CHOOSE h \in hits : \A k \in hits : h <= k
          IN <<SubSeq(s, 1, i - 1)>> \o Split(SubSeq(s, i + n, Len(s)), sep)

\* String.prototype.trim
RECURSIVE TrimStart(_)
TrimStart(s) == IF Len(s) > 0 /\ s[1] = " " THEN TrimStart(Tail(s)) ELSE s

RECURSIVE TrimEnd(_)
TrimEnd(s) ==
  IF Len(s) > 0 /\ s[Len(s)] = " " THEN TrimEnd(SubSeq(s, 1, Len(s) - 1)) ELSE s

Trim(s) == TrimEnd(TrimStart(s))

\* field.startsWith('@')
StartsWithAt(s) == Len(s) > 0 /\ s[1] = "@"

\* Property names every plain object inherits from Object.prototype; their
\* values are functions, none of which has a forEach method.
ObjectPrototypeKeys == {<<"constructor">>, <<"toString">>}

\* this.fieldGroups[name] on the plain object built by the constructor: an own
\* property (a Set), an inherited property, or undefined
GroupLookup(groups, name) ==
  IF name \in DOMAIN groups THEN [t |-> "set", v |-> groups[name]]
  ELSE IF name \in ObjectPrototypeKeys THEN [t |-> "inherited"]
  ELSE Undefined

\* The loop of parseFieldsInput over the trimmed tokens.  groupFields.forEach
\* on an inherited (non-Set) value throws a TypeError.
RECURSIVE ParseLoop(_, _, _, _)
ParseLoop(requestedFields, groups, available, selectedFields) ==
  IF Len(requestedFields) = 0
  THEN [thrown |-> FALSE, value |-> selectedFields]
  ELSE LET field == Head(requestedFields)
           rest == Tail(requestedFields)
           g == IF StartsWithAt(field) THEN GroupLookup(groups, Tail(field))
                ELSE Undefined
       IN IF g.t = "set"
          THEN ParseLoop(rest, groups, available, SetAddAll(selectedFields, g.v))
          ELSE IF g.t = "inherited"
          THEN [thrown |-> TRUE, value |-> selectedFields]
          ELSE IF Includes(available, field)
          THEN ParseLoop(rest, groups, available, SetAdd(selectedFields, field))
          ELSE ParseLoop(rest, groups, available, selectedFields)

ParseFieldsInput(input, groups, available, cfg) ==
  LET parts == Split(input, cfg.separator)
      requestedFields == [i \in 1..Len(parts) |-> Trim(parts[i])]
  IN ParseLoop(requestedFields, groups, available, <<>>)

\* getSelectedFields as a function of the request and the instance's fields:
\* the outcome, whether the value returned is this.defaultFields itself, and
\* the intermediate values (the extracted input, the parsed set).
SelectedFields(request, groups, available, defaults, cfg) ==
  LET fieldsInput == ExtractFieldsFromRequest(request, cfg) IN
    IF ~Truthy(fieldsInput)
    THEN [outcome |-> "returned", alias |-> TRUE, result |-> defaults,
          raw |-> fieldsInput, parsed |-> <<>>]
    ELSE LET p == ParseFieldsInput(fieldsInput.v, groups, available, cfg) IN
      IF p.thrown
      THEN [outcome |-> "thrown", alias |-> FALSE, result |-> <<>>,
            raw |-> fieldsInput, parsed |-> p.value]
      ELSE IF Len(p.value) = 0
      THEN [outcome |-> "returned", alias |-> TRUE, result |-> defaults,
            raw |-> fieldsInput, parsed |-> p.value]
      ELSE [outcome |-> "returned", alias |-> FALSE, result |-> p.value,
            raw |-> fieldsInput, parsed |-> p.value]

Thrown == [kind |-> "error"]

GetSelectedFields(request) ==
  /\ phase = "ready"
  /\ held = NoValue
  /\ LET r == SelectedFields(request, fieldGroups, availableFields,
                             defaultFields, config)
     IN /\ last' = [op |-> "getSelectedFields", request |-> request,
                    outcome |-> r.outcome, result |-> r.result,
                    raw |-> r.raw, parsed |-> r.parsed]
        /\ held' = IF r.outcome = "thrown" THEN Thrown
                   ELSE [kind |-> "set", alias |-> r.alias, val |-> r.result]
  /\ UNCHANGED <<phase, options, config, error, availableFields, defaultFields,
                 fieldGroups>>

(***************************************************************************)
(* filterObject.                                                           *)
(***************************************************************************)
ProtoKey == <<"__proto__">>

\* result[key] = value on the plain object `result`: "__proto__" reaches the
\* accessor inherited from Object.prototype and creates no own property;
\* any other key (never present yet: the input's keys are distinct) becomes
\* the last own property.  The keys modelled are not array indices, which an
\* object enumerates first, in ascending order, for input and result alike.
PutProp(result, key, value) ==
  IF key = ProtoKey THEN result
  ELSE Append(result, [k |-> key, v |-> value])

\* selectedFields.has(key)
Has(S, key) == Includes(S, key)

RECURSIVE FilterLoop(_, _, _)
FilterLoop(entries, selectedFields, result) ==
  IF Len(entries) = 0 THEN result
  ELSE LET e == Head(entries) IN
    FilterLoop(Tail(entries), selectedFields,
               IF Has(selectedFields, e.k) THEN PutProp(result, e.k, e.v)
               ELSE result)

FilteredObject(obj, selectedFields) == FilterLoop(obj, selectedFields, <<>>)

FilterObject(obj, selectedFields) ==
  /\ phase = "ready"
  /\ held = NoValue
  /\ last' = [op |-> "filterObject", obj |-> obj, fields |-> selectedFields,
              outcome |-> "returned", result |-> FilteredObject(obj, selectedFields)]
  /\ held' = [kind |-> "object", alias |-> FALSE,
              val |-> FilteredObject(obj, selectedFields)]
  /\ UNCHANGED <<phase, options, config, error, availableFields, defaultFields,
                 fieldGroups>>

(***************************************************************************)
(* The caller changes the value it holds.  A set returned by                *)
(* getSelectedFields that is this.defaultFields itself (line 61, line 68)   *)
(* is the instance's own Set: changing it changes the instance.            *)
(***************************************************************************)
MutAdd == {<<"x">>}
MutDelete == {<<"a">>}

\* Set.prototype.add / delete / clear on a held set
MutatedSet(value) ==
  {SetAdd(value, e) : e \in MutAdd} \cup {SetDelete(value, e) : e \in MutDelete}
    \cup {<<>>}

\* push (of an element the array lacks) / pop / length = 0 on a held array
MutatedArray(value) ==
  {Append(value, e) : e \in {x \in MutAdd : ~Includes(value, x)}}
    \cup {SubSeq(value, 1, Len(value) - 1) : k \in {1} \cap 1..Len(value)}
    \cup {<<>>}

Mutated(value) == IF value.kind = "set" THEN MutatedSet(value.val)
                  ELSE MutatedArray(value.val)

MutateHeld ==
  /\ phase = "ready"
  /\ held.kind \in {"set", "array"}
  /\ \E v \in Mutated(held) :
       /\ held' = [held EXCEPT !.val = v]
       /\ defaultFields' = IF held.alias THEN v ELSE defaultFields
  /\ last' = [op |-> "mutate"]
  /\ UNCHANGED <<phase, options, config, error, availableFields, fieldGroups>>

(***************************************************************************)
(* Construction inputs.                                                    *)
(***************************************************************************)
SeqsUpTo(S, n) == UNION {[1..k -> S] : k \in 0..n}

CtorNames == {<<"a">>, <<"b">>}
CtorGroupNames == {<<"g">>, <<"h">>}
CtorLists == SeqsUpTo(CtorNames, MaxList)
CtorOptLists == {Undefined} \cup {Arr(l) : l \in CtorLists}
CtorEntries == {[k |-> n, v |-> l] : n \in CtorGroupNames, l \in CtorLists}
\* an object has each key once
DistinctKeys(entries) ==
  \A i, j \in 1..Len(entries) : entries[i].k = entries[j].k => i = j
CtorGroups ==
  {Undefined} \cup
  {Obj(es) : es \in {x \in SeqsUpTo(CtorEntries, MaxGroups) : DistinctKeys(x)}}
CtorOptions ==
  [availableFields : CtorOptLists, defaultFields : CtorOptLists,
   fieldGroups : CtorGroups]
DefaultConfig == [queryParam |-> Undefined, headerName |-> Undefined,
                  separator |-> Undefined]

\* (the guard of Construct is repeated ahead of the choice of its input)
ConstructAny == phase = "new" /\ \E o \in CtorOptions : Construct(o, DefaultConfig)

NextCtor ==
  \/ ConstructAny
  \/ GetAvailableFields
  \/ GetDefaultFields
  \/ MutateHeld
  \/ Release

SpecCtor == Init /\ [][NextCtor]_vars

(***************************************************************************)
(* Inputs of the selection model: two schemas, each under the default and  *)
(* under a custom configuration, and the requests and objects handed in.   *)
(***************************************************************************)
FA == <<"a">>
FB == <<"b">>
FAtA == <<"@", "a">>
GroupG == <<"g">>

\* fields a, b and "@a"; default a; group g = {b}
SchemaGrouped ==
  [availableFields |-> Arr(<<FA, FB, FAtA>>), defaultFields |-> Arr(<<FA>>),
   fieldGroups |-> Obj(<<[k |-> GroupG, v |-> <<FB>>]>>)]

\* fields a and b; defaults b, a; no groups
SchemaPlain ==
  [availableFields |-> Arr(<<FA, FB>>), defaultFields |-> Arr(<<FB, FA>>),
   fieldGroups |-> Undefined]

SelOptions == {SchemaGrouped, SchemaPlain}

CustomConfig == [queryParam |-> Str(<<"select">>), headerName |-> Str(<<"x-select">>),
                 separator |-> Str(<<"|">>)]
\* options that are given but empty, hence falsy
EmptyConfig == [queryParam |-> Str(<<>>), headerName |-> Undefined,
                separator |-> Str(<<>>)]
SelConfigs == {DefaultConfig, EmptyConfig, CustomConfig}

\* the pieces a raw selection string is made of: the empty token, a field,
\* a padded field, a group reference, an "@" token that names no group, an
\* "@" token naming a property of Object.prototype, and a token holding the
\* custom separator
RawTokens ==
  {<<>>, FA, <<" ", "b", " ">>, <<"@", "g">>, FAtA, <<"@", "constructor">>,
   <<"a", "|", "b">>}

TokenLists == UNION {[1..k -> RawTokens] : k \in 1..MaxTokens}
RawStrings == {JoinStr(ts, <<",">>) : ts \in TokenLists}

ArrayElems == {<<>>, FB}
Arrays == SeqsUpTo(ArrayElems, MaxArrayLen)

QueryValues == {Str(x) : x \in RawStrings} \cup {Arr(a) : a \in Arrays}
HeaderValues == {Str(x) : x \in ArrayElems} \cup {Arr(a) : a \in Arrays}

QueryKeys == {<<"fields">>, <<"select">>}
HeaderKeys == {<<"x-fields">>, <<"x-select">>}

\* an absent mapping, an empty one, or one with a single key
Mappings(keys, values) ==
  {Undefined, Obj(<<>>)} \cup {Obj(k :> v) : k \in keys, v \in values}

Requests == [query : Mappings(QueryKeys, QueryValues),
             headers : Mappings(HeaderKeys, HeaderValues)]

ObjKeys == {FA, FB, <<"c">>, ProtoKey}
ObjValues == {"v1", "v2"}
ObjEntries == {[k |-> key, v |-> val] : key \in ObjKeys, val \in ObjValues}
Objects == {es \in SeqsUpTo(ObjEntries, MaxObjKeys) : DistinctKeys(es)}
FieldSets == {fs \in SeqsUpTo(ObjKeys, MaxObjKeys) : Cardinality(Range(fs)) = Len(fs)}

\* (each guard is repeated ahead of the choice of the inputs)
ConstructSelector ==
  phase = "new" /\ \E o \in SelOptions, c \in SelConfigs : Construct(o, c)
GetSelectedFieldsAny ==
  phase = "ready" /\ held = NoValue /\ \E r \in Requests : GetSelectedFields(r)
FilterObjectAny ==
  phase = "ready" /\ held = NoValue
    /\ \E obj \in Objects, fs \in FieldSets : FilterObject(obj, fs)

Next ==
  \/ ConstructSelector
  \/ GetSelectedFieldsAny
  \/ FilterObjectAny
  \/ GetAvailableFields
  \/ GetDefaultFields
  \/ MutateHeld
  \/ Release

Spec == Init /\ [][Next]_vars

(***************************************************************************)
(* Claims about construction and the accessors (checked under SpecCtor).   *)
(***************************************************************************)
Flatten(ss) == JoinStr(ss, <<>>)

\* the text expected for an invalid group: its name, then every one of its
\* fields separated by ", "
ExpectedGroupError(name, fields) ==
  <<"Group ">> \o name \o <<" contains invalid fields: ">>
    \o Flatten([i \in 1..(IF Len(fields) = 0 THEN 0 ELSE 2 * Len(fields) - 1) |->
                 IF i % 2 = 1 THEN fields[(i + 1) \div 2] ELSE <<", ">>])

Supplied(list) == list.t = "arr" /\ Len(list.v) > 0

InvalidGroups(opts) ==
  IF opts.fieldGroups.t = "undefined" THEN {}
  ELSE {i \in 1..Len(opts.fieldGroups.v) :
          \E f \in Range(opts.fieldGroups.v[i].v) :
             f \notin Range(opts.availableFields.v)}

FirstOf(S) == CHOOSE i \in S : \A j \in S : i <= j

\* C8: construction fails fast in a fixed order: availableFields missing or
\* empty, then defaultFields missing or empty, then a default field that is
\* not available, then the first group (in iteration order) with a field that
\* is not available, reported with the group's name and all of its fields;
\* when none of these holds construction succeeds.
C8_FailFastOrder ==
  phase # "new" =>
    IF ~Supplied(options.availableFields)
    THEN phase = "failed" /\ error = <<"availableFields must be provided and non-empty">>
    ELSE IF ~Supplied(options.defaultFields)
    THEN phase = "failed" /\ error = <<"defaultFields must be provided and non-empty">>
    ELSE IF \E f \in Range(options.defaultFields.v) :
               f \notin Range(options.availableFields.v)
    THEN phase = "failed"
         /\ error = <<"Default fields has values not present in available fields">>
    ELSE IF InvalidGroups(options) # {}
    THEN LET g == options.fieldGroups.v[FirstOf(InvalidGroups(options))] IN
           phase = "failed" /\ error = ExpectedGroupError(g.k, g.v)
    ELSE phase = "ready" /\ error = <<>>

\* C8 witness: construction failed on the first of two invalid groups, whose
\* listed fields include a valid one.
C8_Witness ==
  /\ phase = "failed"
  /\ Supplied(options.availableFields)
  /\ Supplied(options.defaultFields)
  /\ InvalidGroups(options) = {1, 2}
  /\ \E f \in Range(options.fieldGroups.v[1].v) : f \in Range(options.availableFields.v)
  /\ error = ExpectedGroupError(options.fieldGroups.v[1].k, options.fieldGroups.v[1].v)

ValidOptions(opts) ==
  /\ Supplied(opts.availableFields)
  /\ Supplied(opts.defaultFields)
  /\ Range(opts.defaultFields.v) \subseteq Range(opts.availableFields.v)
  /\ InvalidGroups(opts) = {}

\* the elements of a list, each once, at the place of its first occurrence
FirstOccurrences(list) ==
  LET keep == {i \in 1..Len(list) : \A j \in 1..(i - 1) : list[j] # list[i]}
      nth(k) == CHOOSE i \in keep : Cardinality({j \in keep : j <= i}) = k
  IN [k \in 1..Cardinality(keep) |-> list[nth(k)]]

\* C9 as stated: for non-empty lists with every default field available,
\* construction succeeds and the accessors return the supplied lists, element
\* for element in the original order.
C9_SuppliedListsReturned ==
  (phase # "new" /\ ValidOptions(options)) =>
    /\ phase = "ready"
    /\ last.op = "getAvailableFields" => last.result = options.availableFields.v
    /\ last.op = "getDefaultFields" => last.result = options.defaultFields.v

\* C9 amended: for such lists (field groups absent or valid) construction
\* succeeds and, on the newly constructed selector, each accessor returns the
\* supplied list with repeated elements removed, every element at the place
\* of its first occurrence; a list without repetitions is returned as it was
\* supplied.
C9_FirstOccurrencesReturned ==
  (phase # "new" /\ ValidOptions(options)) =>
    /\ phase = "ready"
    /\ last.op = "getAvailableFields" =>
         last.result = FirstOccurrences(options.availableFields.v)
    /\ last.op = "getDefaultFields" =>
         last.result = FirstOccurrences(options.defaultFields.v)
    /\ \A l \in {options.availableFields.v, options.defaultFields.v} :
         Cardinality(Range(l)) = Len(l) => FirstOccurrences(l) = l

\* C9 witness: getAvailableFields on a selector built from a list that names
\* a field twice returned that field once.
C9_Witness ==
  /\ phase = "ready"
  /\ last.op = "getAvailableFields"
  /\ Len(options.availableFields.v) = 2
  /\ options.availableFields.v[1] = options.availableFields.v[2]
  /\ last.result = <<options.availableFields.v[1]>>

(***************************************************************************)
(* Claims about selection, immutability and filtering (checked under       *)
(* Spec).                                                                  *)
(***************************************************************************)
IsSelection == last.op = "getSelectedFields"

ConfiguredAvailable == Range(options.availableFields.v)
ConfiguredDefaults == Range(options.defaultFields.v)
ConfiguredGroupEntries ==
  IF options.fieldGroups.t = "undefined" THEN {} ELSE Range(options.fieldGroups.v)

KeyPresent(mapping, key) == mapping.t = "obj" /\ key \in DOMAIN mapping.v
QueryKeyPresent(req) == KeyPresent(req.query, config.queryParam)
HeaderKeyPresent(req) == KeyPresent(req.headers, config.headerName)

\* getSelectedFields on the current instance
Selected(req) ==
  SelectedFields(req, fieldGroups, availableFields, defaultFields, config)

SameAnswer(r) == last.outcome = r.outcome /\ last.result = r.result

\* C1: the set getSelectedFields returns holds only available fields, or is
\* exactly the configured default-fields set.
C1_OnlyAvailableOrDefaults ==
  (IsSelection /\ last.outcome = "returned") =>
    \/ Range(last.result) \subseteq ConfiguredAvailable
    \/ Range(last.result) = ConfiguredDefaults

\* C2: getSelectedFields never raises, whatever the selection string.
C2_NeverRaises == IsSelection => last.outcome = "returned"

\* C3: a selector is immutable after construction: whatever the caller does
\* with the values it was handed, the available fields, default fields and
\* groups stay those supplied at construction, and getDefaultFields() and
\* getSelectedFields({}) keep yielding the supplied defaults.
C3_ImmutableAfterConstruction ==
  phase = "ready" =>
    /\ Range(availableFields) = ConfiguredAvailable
    /\ Range(defaultFields) = ConfiguredDefaults
    /\ DOMAIN fieldGroups = {e.k : e \in ConfiguredGroupEntries}
    /\ \A e \in ConfiguredGroupEntries : Range(fieldGroups[e.k]) = Range(e.v)
    /\ last.op = "getDefaultFields" => Range(last.result) = ConfiguredDefaults
    /\ (IsSelection /\ last.request = [query |-> Undefined, headers |-> Undefined])
         => Range(last.result) = ConfiguredDefaults

\* C4: when the query mapping has the configured query key, its value is the
\* raw selection and the headers are not consulted (the answer is that of the
\* same request without headers); when neither key is present the result is
\* the default fields.
C4_QueryBeforeHeaders ==
  IsSelection =>
    /\ QueryKeyPresent(last.request) =>
         SameAnswer(Selected([last.request EXCEPT !.headers = Undefined]))
    /\ (~QueryKeyPresent(last.request) /\ ~HeaderKeyPresent(last.request)) =>
         (last.outcome = "returned" /\ last.result = defaultFields)

WithQueryValue(req, v) ==
  [req EXCEPT !.query = Obj((config.queryParam :> v) @@ req.query.v)]
WithHeaderValue(req, v) ==
  [req EXCEPT !.headers = Obj((config.headerName :> v) @@ req.headers.v)]

NonEmptyArray(x) == x.t = "arr" /\ Len(x.v) > 0

\* C5: a request whose query (or header) value is a non-empty sequence gets
\* the same answer as the same request with that value replaced by the
\* sequence's first element as a single string.
C5_FirstElementEquivalence ==
  IsSelection =>
    LET q == Prop(last.request.query, config.queryParam)
        h == Prop(last.request.headers, config.headerName)
    IN /\ NonEmptyArray(q) =>
            SameAnswer(Selected(WithQueryValue(last.request, Str(q.v[1]))))
       /\ NonEmptyArray(h) =>
            SameAnswer(Selected(WithHeaderValue(last.request, Str(h.v[1]))))

\* the separator-split, whitespace-trimmed, non-empty tokens of a raw string
NonEmptyTokens(raw) ==
  {Trim(part) : part \in Range(Split(raw, config.separator))} \ {<<>>}

\* what one token contributes: the fields of group g for "@g" with g a
\* configured group, the token itself for an unprefixed available field,
\* nothing otherwise
Contribution(token) ==
  IF StartsWithAt(token)
  THEN UNION {Range(e.v) : e \in {x \in ConfiguredGroupEntries : x.k = Tail(token)}}
  ELSE IF token \in ConfiguredAvailable THEN {token}
  ELSE {}

Resolved(raw) == UNION {Contribution(t) : t \in NonEmptyTokens(raw)}

\* C6: for a present raw selection string the accumulated set is exactly the
\* union of the tokens' contributions; an "@" token whose remainder is not a
\* configured group contributes nothing.  (Stated for the calls that return.)
C6_TokenResolution ==
  (IsSelection /\ Truthy(last.raw) /\ last.outcome = "returned") =>
    Range(last.parsed) = Resolved(last.raw.v)

\* C7: the default fields are returned when neither key is present and when
\* a present raw selection string accumulates nothing; a non-empty
\* accumulated set is itself returned.  (The raw string and the accumulated
\* set are the ones the call itself extracted and accumulated.)
C7_DefaultFallback ==
  IsSelection =>
    /\ (~QueryKeyPresent(last.request) /\ ~HeaderKeyPresent(last.request)) =>
         (last.outcome = "returned" /\ last.result = defaultFields)
    /\ last.raw.t = "str" =>
         /\ last.outcome = "returned"
         /\ last.parsed = <<>> => last.result = defaultFields
         /\ last.parsed # <<>> => last.result = last.parsed

\* C10: filterObject returns exactly the input's entries whose key is in the
\* field set, with their values, in the input's enumeration order.
C10_Projection ==
  last.op = "filterObject" =>
    last.result = SelectSeq(last.obj, LAMBDA e : e.k \in Range(last.fields))

====
